---- MODULE Spec2Model ----
(***************************************************************************)
(* Model of opendatapy's TabularDataResource (resources.py) and of the     *)
(* load_resource entry point of datapackage.py.                            *)
(*                                                                         *)
(* A pandas DataFrame is a record                                          *)
(*   [range, idx, cols, rows]                                              *)
(* range = TRUE: the index is the default RangeIndex(0, len) and a row     *)
(* holds the column values only; range = FALSE: the index is user-defined, *)
(* idx names its levels and a row holds the index values followed by the   *)
(* column values.                                                          *)
(* A row of the JSON records format is a sequence of <<key, value>> pairs  *)
(* (a python dict keeps insertion order).                                  *)
(***************************************************************************)
EXTENDS Integers, Sequences, FiniteSets, TLC

\* ------------------------------------------------------------------ bounds
MaxCols == 3        \* widest table handed to the data setter
MaxRows == 2        \* rows of a non-empty table handed to the data setter
MaxGenCols == 6     \* widest table _generate_schema is applied to on its own
MaxPos == 3         \* largest start or stop of a range index of a format field

\* --------------------------------------------------------- sequence helpers
Range(s) == {s[i] : i \in DOMAIN s}

Max(a, b) == IF a >= b THEN a ELSE b

Min(a, b) == IF a <= b THEN a ELSE b

\* position of the first occurrence of x in s (0 when absent)
IndexOf(s, x) ==
  IF x \in Range(s) THEN CHOOSE i \in DOMAIN s : s[i] = x /\ \A j \in 1..(i - 1) : s[j] # x
  ELSE 0

\* s without the elements of the set drop, order kept
Without(s, drop) == SelectSeq(s, LAMBDA x : x \notin drop)

\* ------------------------------------------------------------- DataFrames
NoName == "<unnamed>"   \* name of an index level that has no name (None)

\* pd.DataFrame.from_dict([]) : no columns, no rows, RangeIndex
EmptyFrame == [range |-> TRUE, idx |-> <<>>, cols |-> <<>>, rows |-> <<>>]

\* DataFrame.empty : any axis has length 0
IsEmpty(df) == Len(df.rows) = 0 \/ Len(df.cols) = 0

\* helpers.has_user_defined_index
has_user_defined_index(df) == ~df.range

\* DataFrame.reset_index() : the index becomes leading columns; a default
\* RangeIndex becomes a column "index" holding the row numbers 0..n-1
reset_index(df) ==
  IF df.range
  THEN [range |-> TRUE, idx |-> <<>>,
        cols |-> <<"index">> \o df.cols,
        rows |-> [i \in DOMAIN df.rows |-> <<i - 1>> \o df.rows[i]]]
  ELSE [range |-> TRUE, idx |-> <<>>,
        cols |-> [k \in DOMAIN df.idx |->
                    IF df.idx[k] = NoName THEN "index" ELSE df.idx[k]] \o df.cols,
        rows |-> df.rows]

\* value of column label c in a row of df
ColVal(df, row, c) == row[Len(df.idx) + IndexOf(df.cols, c)]

\* DataFrame.set_index(keys) can be applied: every key is a column
CanSetIndex(df, keys) == \A k \in Range(keys) : k \in Range(df.cols)

\* DataFrame.set_index(keys, inplace=True): the key columns leave the columns
\* and become the index (the previous index is dropped)
set_index(df, keys) ==
  LET rest == Without(df.cols, Range(keys))
  IN [range |-> FALSE, idx |-> keys, cols |-> rest,
      rows |-> [i \in DOMAIN df.rows |->
                  [k \in DOMAIN keys |-> ColVal(df, df.rows[i], keys[k])]
                  \o [k \in DOMAIN rest |-> ColVal(df, df.rows[i], rest[k])]]]

\* data[cols] : select columns by label, in the order given
SelectCols(df, cols) ==
  [df EXCEPT !.cols = cols,
             !.rows = [i \in DOMAIN df.rows |->
                         SubSeq(df.rows[i], 1, Len(df.idx))
                         \o [k \in DOMAIN cols |-> ColVal(df, df.rows[i], cols[k])]]]

\* data.columns = labels : positional relabelling (lengths must agree)
RenameCols(df, labels) == [df EXCEPT !.cols = labels]

\* value stored under key in a record (python dict lookup: last pair wins)
Lookup(rec, key) ==
  LET hits == {i \in DOMAIN rec : rec[i][1] = key}
  IN rec[CHOOSE i \in hits : \A j \in hits : j <= i][2]

\* keys of a record in insertion order
Keys(rec) == [i \in DOMAIN rec |-> rec[i][1]]

\* pd.DataFrame.from_dict(records) for a list of records with the same keys:
\* the columns are the keys in the order of the first record
from_dict(records) ==
  IF Len(records) = 0 THEN EmptyFrame
  ELSE LET cols == Keys(records[1])
       IN [range |-> TRUE, idx |-> <<>>, cols |-> cols,
           rows |-> [i \in DOMAIN records |->
                       [k \in DOMAIN cols |-> Lookup(records[i], cols[k])]]]

\* DataFrame.to_dict(orient="records") of a frame: one dict per row, keyed by
\* column label in column order (the index is not part of a record)
to_records(df) ==
  [i \in DOMAIN df.rows |->
     [k \in DOMAIN df.cols |-> <<df.cols[k], df.rows[i][Len(df.idx) + k]>>]]

\* ------------------------------------------------- fields, formats, schemas
NoTitle == "<no title>"   \* the field dict has no "title" key
NoType  == "<no type>"    \* the schema/format dict has no "type" key

\* the "index" entry of a format field, parsed: "p" (an integer) or
\* "start:stop" with either part possibly omitted
At(p) == [slice |-> FALSE, hasStart |-> TRUE, start |-> p, hasStop |-> FALSE, stop |-> 0]

Slice(a, b) == [slice |-> TRUE, hasStart |-> TRUE, start |-> a, hasStop |-> TRUE, stop |-> b]

From(a) == [slice |-> TRUE, hasStart |-> TRUE, start |-> a, hasStop |-> FALSE, stop |-> 0]

UpTo(b) == [slice |-> TRUE, hasStart |-> FALSE, start |-> 0, hasStop |-> TRUE, stop |-> b]

All == [slice |-> TRUE, hasStart |-> FALSE, start |-> 0, hasStop |-> FALSE, stop |-> 0]

\* a format field {"index": ix, "name": name, "type": meta}
FormatField(ix, name) ==
  [set |-> TRUE, name |-> name, title |-> NoTitle, hasIndex |-> TRUE, index |-> ix,
   meta |-> "number"]

\* a schema field {"name": name, "type": meta} as found in a persisted schema
SchemaField(name) ==
  [set |-> TRUE, name |-> name, title |-> NoTitle, hasIndex |-> FALSE, index |-> At(0),
   meta |-> "number"]

\* a slot of schema_fields that is still None
NoneField ==
  [set |-> FALSE, name |-> "", title |-> NoTitle, hasIndex |-> FALSE, index |-> At(0),
   meta |-> ""]

\* a format or schema dict: set = it is truthy, hasFields/hasPk/type = the
\* keys "fields", "primaryKey", "type" it holds
Dict(fields, hasPk, pk) ==
  [set |-> TRUE, hasFields |-> TRUE, fields |-> fields, hasPk |-> hasPk, pk |-> pk,
   type |-> NoType]

\* a falsy schema or format (None, {} or "")
Falsy ==
  [set |-> FALSE, hasFields |-> FALSE, fields |-> <<>>, hasPk |-> FALSE, pk |-> <<>>,
   type |-> NoType]

\* the placeholder format {"hello": "world"} of load_resource without a format
HelloWorld == [Falsy EXCEPT !.set = TRUE]

Names(d) == [i \in DOMAIN d.fields |-> d.fields[i].name]

Titles(d) == [i \in DOMAIN d.fields |-> d.fields[i].title]

\* ------------------------------------------------------- python list slices
\* slice(start, stop).indices(C): first selected position and the position
\* after the last one, 0-based, clamped to 0..C
Clamp(hasV, v, dflt, C) ==
  IF ~hasV THEN dflt
  ELSE IF v < 0 THEN Max(v + C, 0) ELSE Min(v, C)

\* a negative start of a slice taken for the first position
SliceLo_NoNegative(ix, C) == IF ~ix.hasStart THEN 0 ELSE Min(Max(ix.start, 0), C)

SliceLo(ix, C) == Clamp(ix.hasStart, ix.start, 0, C)

SliceHi(ix, C) == Max(Clamp(ix.hasStop, ix.stop, C, C), SliceLo(ix, C))

\* ------------------------------------------------- TabularDataResource
\* the loop assigning a slice-indexed field directly, its name unchanged,
\* when the slice selects one position
RECURSIVE ApplyFormatFields_DirectSingle(_, _, _)
ApplyFormatFields_DirectSingle(fields, k, slots) ==
  IF k > Len(fields) THEN [err |-> "ok", slots |-> slots, pos |-> 0]
  ELSE LET C  == Len(slots)
           ix == fields[k].index
           ff == [fields[k] EXCEPT !.hasIndex = FALSE, !.index = At(0)]
       IN IF ix.slice
          THEN LET lo == SliceLo(ix, C)
                   hi == SliceHi(ix, C)
               IN ApplyFormatFields_DirectSingle(fields, k + 1,
                    [i \in 1..C |->
                       IF lo <= i - 1 /\ i - 1 < hi
                       THEN IF hi - lo = 1 THEN ff
                            ELSE [ff EXCEPT !.name = ff.name \o ToString(i - 1 - lo)]
                       ELSE slots[i]])
          ELSE IF ix.start >= C \/ ix.start < -C
               THEN [err |-> "IndexError", slots |-> slots, pos |-> ix.start]
               ELSE ApplyFormatFields_DirectSingle(fields, k + 1,
                      [slots EXCEPT ![(IF ix.start < 0 THEN ix.start + C ELSE ix.start) + 1]
                                       = ff])

\* the loop appending each integer-indexed field instead of placing it at
\* its index
RECURSIVE ApplyFormatFields_Appending(_, _, _)
ApplyFormatFields_Appending(fields, k, slots) ==
  IF k > Len(fields) THEN [err |-> "ok", slots |-> slots, pos |-> 0]
  ELSE LET C  == Len(slots)
           ix == fields[k].index
           ff == [fields[k] EXCEPT !.hasIndex = FALSE, !.index = At(0)]
       IN IF ix.slice
          THEN LET lo == SliceLo(ix, C)
                   hi == SliceHi(ix, C)
               IN ApplyFormatFields_Appending(fields, k + 1,
                    [i \in 1..C |->
                       IF lo <= i - 1 /\ i - 1 < hi
                       THEN [ff EXCEPT !.name = ff.name \o ToString(i - 1 - lo)]
                       ELSE slots[i]])
          ELSE IF ix.start >= C \/ ix.start < -C
               THEN [err |-> "IndexError", slots |-> slots, pos |-> ix.start]
               ELSE ApplyFormatFields_Appending(fields, k + 1,
                      [slots EXCEPT ![Min(k, C)] = ff])

\* the loop keeping the field a slot already holds (first write wins)
RECURSIVE ApplyFormatFields_FirstWins(_, _, _)
ApplyFormatFields_FirstWins(fields, k, slots) ==
  IF k > Len(fields) THEN [err |-> "ok", slots |-> slots, pos |-> 0]
  ELSE LET C  == Len(slots)
           ix == fields[k].index
           ff == [fields[k] EXCEPT !.hasIndex = FALSE, !.index = At(0)]
       IN IF ix.slice
          THEN LET lo == SliceLo(ix, C)
                   hi == SliceHi(ix, C)
               IN ApplyFormatFields_FirstWins(fields, k + 1,
                    [i \in 1..C |->
                       IF lo <= i - 1 /\ i - 1 < hi /\ ~slots[i].set
                       THEN [ff EXCEPT !.name = ff.name \o ToString(i - 1 - lo)]
                       ELSE slots[i]])
          ELSE IF ix.start >= C \/ ix.start < -C
               THEN [err |-> "IndexError", slots |-> slots, pos |-> ix.start]
               ELSE LET p == (IF ix.start < 0 THEN ix.start + C ELSE ix.start) + 1
                    IN ApplyFormatFields_FirstWins(fields, k + 1,
                         IF slots[p].set THEN slots ELSE [slots EXCEPT ![p] = ff])

\* the loop taking a negative integer index for an index out of range
RECURSIVE ApplyFormatFields_NoNegative(_, _, _)
ApplyFormatFields_NoNegative(fields, k, slots) ==
  IF k > Len(fields) THEN [err |-> "ok", slots |-> slots, pos |-> 0]
  ELSE LET C  == Len(slots)
           ix == fields[k].index
           ff == [fields[k] EXCEPT !.hasIndex = FALSE, !.index = At(0)]
       IN IF ix.slice
          THEN LET lo == SliceLo(ix, C)
                   hi == SliceHi(ix, C)
               IN ApplyFormatFields_NoNegative(fields, k + 1,
                    [i \in 1..C |->
                       IF lo <= i - 1 /\ i - 1 < hi
                       THEN [ff EXCEPT !.name = ff.name \o ToString(i - 1 - lo)]
                       ELSE slots[i]])
          ELSE IF ix.start >= C \/ ix.start < 0
               THEN [err |-> "IndexError", slots |-> slots, pos |-> ix.start]
               ELSE ApplyFormatFields_NoNegative(fields, k + 1,
                      [slots EXCEPT ![ix.start + 1] = ff])

\* _generate_schema, the loop over the format fields: slots is schema_fields,
\* k the next format field. Result: the slots, or the IndexError raised and
\* the format index its message reports.
RECURSIVE ApplyFormatFields(_, _, _)
ApplyFormatFields(fields, k, slots) ==
  IF k > Len(fields) THEN [err |-> "ok", slots |-> slots, pos |-> 0]
  ELSE LET C  == Len(slots)
           ix == fields[k].index
           ff == [fields[k] EXCEPT !.hasIndex = FALSE, !.index = At(0)]
       IN IF ix.slice
          THEN LET lo == SliceLo(ix, C)
                   hi == SliceHi(ix, C)
               IN ApplyFormatFields(fields, k + 1,
                    [i \in 1..C |->
                       IF lo <= i - 1 /\ i - 1 < hi
                       THEN [ff EXCEPT !.name = ff.name \o ToString(i - 1 - lo)]
                       ELSE slots[i]])
          ELSE IF ix.start >= C \/ ix.start < -C
               THEN [err |-> "IndexError", slots |-> slots, pos |-> ix.start]
               ELSE ApplyFormatFields(fields, k + 1,
                      [slots EXCEPT ![(IF ix.start < 0 THEN ix.start + C ELSE ix.start) + 1]
                                       = ff])

\* _generate_schema(data): the schema it installs, or the error it raises
\* before installing anything
generate_schema(format, df) ==
  LET C == IF has_user_defined_index(df) THEN Len(reset_index(df).cols) ELSE Len(df.cols)
  IN IF ~format.hasFields THEN [err |-> "KeyError", schema |-> Falsy, pos |-> 0]
     ELSE LET r == ApplyFormatFields(format.fields, 1, [i \in 1..C |-> NoneField])
          IN IF r.err # "ok" THEN [err |-> r.err, schema |-> Falsy, pos |-> r.pos]
             ELSE [err |-> "ok", schema |-> Dict(r.slots, format.hasPk, format.pk),
                   pos |-> 0]

\* __bool__ that looks at the schema only
bool_SchemaOnly(schema, df) == IF schema.set THEN "True" ELSE "False"

\* __bool__: "True", "False" or the ValueError it raises
bool(schema, df) ==
  IF schema.set /\ ~IsEmpty(df) THEN "True"
  ELSE IF IsEmpty(df) THEN "False"
  ELSE "ValueError"

\* an operation that raises leaves the resource r behind
Raise(r, e) == [err |-> e, res |-> r]

Return(r) == [err |-> "ok", res |-> r]

\* a write to self._resource["schema"]: when the schema is the very dict of
\* the format (load_resource copied the reference), the format sees it too
WriteSchema(r, s) == [r EXCEPT !.schema = s, !.format = IF r.aliased THEN s ELSE @]

\* the title loop of the setter stops at the first column that has no schema
\* field (IndexError) or whose schema field is None (TypeError); 0 = completes
TitleStop(fields, cols) ==
  LET bad == {i \in DOMAIN cols : i > Len(fields) \/ ~fields[i].set}
  IN IF bad = {} THEN 0 ELSE CHOOSE i \in bad : \A j \in bad : i <= j

\* the titles the loop has written when it ran over columns 1..n
WithTitles(fields, cols, n) ==
  [i \in DOMAIN fields |->
     IF i <= n THEN [fields[i] EXCEPT !.title = cols[i]] ELSE fields[i]]

\* the setter, cutting the schema names to the width of the data instead of
\* raising on a length mismatch
SetAgainstSchema_Truncating(r, df) ==
  LET d      == IF has_user_defined_index(df) THEN reset_index(df) ELSE df
      stop   == TitleStop(r.schema.fields, d.cols)
      done   == IF stop = 0 THEN Len(d.cols) ELSE stop - 1
      titled == [r.schema EXCEPT !.fields = WithTitles(r.schema.fields, d.cols, done)]
      r2     == WriteSchema(r, titled)
      names  == SubSeq(Names(titled), 1, Len(d.cols))
  IN IF stop # 0
     THEN Raise(r2, IF stop > Len(r.schema.fields) THEN "IndexError" ELSE "TypeError")
     ELSE LET d2 == IF d.cols # names THEN RenameCols(d, names) ELSE d
          IN IF ~titled.hasPk \/ ~CanSetIndex(d2, titled.pk) THEN Raise(r2, "KeyError")
             ELSE Return([r2 EXCEPT !.data = set_index(d2, titled.pk)])

\* the data setter from "Schema exists" on
SetAgainstSchema(r, df) ==
  LET d      == IF has_user_defined_index(df) THEN reset_index(df) ELSE df
      stop   == TitleStop(r.schema.fields, d.cols)
      done   == IF stop = 0 THEN Len(d.cols) ELSE stop - 1
      titled == [r.schema EXCEPT !.fields = WithTitles(r.schema.fields, d.cols, done)]
      r2     == WriteSchema(r, titled)
      names  == Names(titled)
  IN IF Len(d.cols) > 0 /\ ~r.schema.hasFields THEN Raise(r, "KeyError")
     ELSE IF stop # 0
     THEN Raise(r2, IF stop > Len(r.schema.fields) THEN "IndexError" ELSE "TypeError")
     ELSE IF \E i \in DOMAIN titled.fields : ~titled.fields[i].set
     THEN Raise(r2, "TypeError")
     ELSE IF d.cols # names /\ Len(d.cols) # Len(names) THEN Raise(r2, "ValueError")
     ELSE LET d2 == IF d.cols # names THEN RenameCols(d, names) ELSE d
          IN IF ~titled.hasPk \/ ~CanSetIndex(d2, titled.pk) THEN Raise(r2, "KeyError")
             ELSE Return([r2 EXCEPT !.data = set_index(d2, titled.pk)])

\* the data setter, generating a schema on every assignment
data_setter_Regenerating(r, df) ==
  LET g == generate_schema(r.format, df)
  IN IF g.err # "ok" THEN Raise(r, g.err)
     ELSE SetAgainstSchema([r EXCEPT !.schema = g.schema, !.aliased = FALSE], df)

\* the data setter
data_setter(r, df) ==
  LET b == bool(r.schema, r.data)
  IN IF b = "ValueError" THEN Raise(r, "ValueError")
     ELSE IF b = "True" THEN SetAgainstSchema(r, df)
     ELSE LET g == generate_schema(r.format, df)
          IN IF g.err # "ok" THEN Raise(r, g.err)
             ELSE SetAgainstSchema([r EXCEPT !.schema = g.schema, !.aliased = FALSE], df)

\* to_dict without the reset_index() workaround: the index is left out
to_dict_NoIndex(r) ==
  [format |-> r.format, schema |-> r.schema, aliased |-> r.aliased,
   records |-> to_records(r.data)]

\* to_dict: a deep copy of the resource with the data as records
to_dict(r) ==
  [format |-> r.format, schema |-> r.schema, aliased |-> r.aliased,
   records |-> to_records(reset_index(r.data))]

\* __init__ without its last branch: data without a schema is let through
init_Lenient(rj) ==
  LET data == from_dict(rj.records)
      r    == [format |-> rj.format, schema |-> rj.schema, aliased |-> rj.aliased,
               data |-> data]
  IN IF ~rj.format.set THEN Raise(r, "ValueError")
     ELSE IF rj.schema.set /\ ~IsEmpty(data)
     THEN IF ~rj.schema.hasFields THEN Raise(r, "KeyError")
          ELSE IF \E i \in DOMAIN rj.schema.fields : ~rj.schema.fields[i].set
          THEN Raise(r, "TypeError")
          ELSE IF Range(Names(rj.schema)) # Range(data.cols) THEN Raise(r, "ValueError")
          ELSE LET d1 == SelectCols(data, Names(rj.schema))
               IN IF ~rj.schema.hasPk THEN Return([r EXCEPT !.data = d1])
                  ELSE IF ~CanSetIndex(d1, rj.schema.pk) THEN Raise(r, "KeyError")
                  ELSE Return([r EXCEPT !.data = set_index(d1, rj.schema.pk)])
     ELSE Return(r)

\* __init__(resource): rj is the resource dict, its "data" a list of records
init(rj) ==
  LET data == from_dict(rj.records)
      r    == [format |-> rj.format, schema |-> rj.schema, aliased |-> rj.aliased,
               data |-> data]
  IN IF ~rj.format.set THEN Raise(r, "ValueError")
     ELSE IF rj.schema.set /\ ~IsEmpty(data)
     THEN IF ~rj.schema.hasFields THEN Raise(r, "KeyError")
          ELSE IF \E i \in DOMAIN rj.schema.fields : ~rj.schema.fields[i].set
          THEN Raise(r, "TypeError")
          ELSE IF Range(Names(rj.schema)) # Range(data.cols) THEN Raise(r, "ValueError")
          ELSE LET d1 == SelectCols(data, Names(rj.schema))
               IN IF ~rj.schema.hasPk THEN Return([r EXCEPT !.data = d1])
                  ELSE IF ~CanSetIndex(d1, rj.schema.pk) THEN Raise(r, "KeyError")
                  ELSE Return([r EXCEPT !.data = set_index(d1, rj.schema.pk)])
     ELSE IF IsEmpty(data) THEN Return(r)
     ELSE Raise(r, "ValueError")

\* load_resource(run_name, resource_name, format_name): f is what the files
\* hold: the resource's "schema" (inherit = the string "inherit-from-format"),
\* "data" and "profile", and the format file's "schema" when a format is named
load_resource(f) ==
  LET copy == f.named /\ f.inherit
      fmt  == IF ~f.named THEN HelloWorld
              ELSE IF copy THEN [f.format EXCEPT !.set = TRUE, !.type = "format"]
              ELSE f.format
      rj   == [format |-> fmt, schema |-> IF copy THEN fmt ELSE f.schema,
               aliased |-> copy, records |-> f.records]
  IN IF f.profile \in {"tabular-data-resource", "parameter-tabular-data-resource"}
     THEN init(rj)
     ELSE Raise([format |-> fmt, schema |-> rj.schema, aliased |-> copy,
                 data |-> EmptyFrame], "NotImplementedError")

\* write_resource that writes the schema it is given as it is
write_resource_Expanded(r, f) ==
  LET rj == to_dict(r)
  IN [f EXCEPT !.inherit = FALSE, !.schema = rj.schema, !.records = rj.records]

\* write_resource(run_name, resource): what the resource file f holds
\* afterwards; the format is not written, and a schema tagged as a copy of the
\* format is written as the string "inherit-from-format"
write_resource(r, f) ==
  LET rj == to_dict(r)
      collapse == rj.schema.type = "format"
  IN [f EXCEPT !.inherit = collapse,
               !.schema = IF collapse THEN Falsy ELSE rj.schema,
               !.records = rj.records]

\* ------------------------------------------------------------ input domains
\* column labels a caller gives a table: the plain ones, or with one renamed
Plain == <<"a", "b", "c", "d", "e", "g">>

Renamed == <<"a", "y", "c", "d", "e", "g">>

\* the cells of an n x m table, numbered from 1 on, row by row
Cells(n, m) == [i \in 1..m |-> [j \in 1..n |-> (i - 1) * n + j]]

\* a table with the default RangeIndex
DefaultTable(L, n, m) ==
  [range |-> TRUE, idx |-> <<>>, cols |-> SubSeq(L, 1, n), rows |-> Cells(n, m)]

\* a table whose first column was made the index by its caller
KeyedTable(L, n, m) ==
  [range |-> FALSE, idx |-> <<L[1]>>, cols |-> SubSeq(L, 2, n), rows |-> Cells(n, m)]

\* a table with an unnamed index that is not 0..m-1 (rows numbered from 1)
OffsetTable(L, n, m) ==
  [range |-> FALSE, idx |-> <<NoName>>, cols |-> SubSeq(L, 1, n),
   rows |-> [i \in 1..m |-> <<i>> \o Cells(n, m)[i]]]

\* tables have 1..MaxCols columns and no row or MaxRows rows
Shapes == (1..MaxCols) \X {0, MaxRows}

Tables ==
  {DefaultTable(Plain, s[1], s[2]) : s \in Shapes}
  \cup {DefaultTable(Renamed, s[1], s[2]) : s \in Shapes}
  \cup {KeyedTable(Plain, s[1], s[2]) : s \in Shapes}
  \cup {OffsetTable(Plain, s[1], s[2]) : s \in Shapes}

\* formats (templates)
FmtKeyFirst == Dict(<<FormatField(At(0), "a"), FormatField(At(1), "b")>>, TRUE, <<"a">>)

FmtKeyLast == Dict(<<FormatField(At(0), "a"), FormatField(At(1), "b")>>, TRUE, <<"b">>)

FmtNoKey == Dict(<<FormatField(At(0), "a"), FormatField(At(1), "b")>>, FALSE, <<>>)

FmtRange == Dict(<<FormatField(At(0), "k"), FormatField(From(1), "f")>>, TRUE, <<"k">>)

FmtAllKey == Dict(<<FormatField(At(0), "a")>>, TRUE, <<"a">>)

FmtOverlap == Dict(<<FormatField(All, "f"), FormatField(At(-1), "z")>>, TRUE, <<"z">>)

FmtGap == Dict(<<FormatField(At(0), "a"), FormatField(At(2), "c")>>, TRUE, <<"a">>)

FmtNoFields == Dict(<<>>, FALSE, <<>>)

Formats ==
  {FmtKeyFirst, FmtKeyLast, FmtNoKey, FmtRange, FmtAllKey, FmtOverlap, FmtGap, FmtNoFields}

\* persisted schemas and data
SchKeyFirst == Dict(<<SchemaField("a"), SchemaField("b")>>, TRUE, <<"a">>)

SchKeyLast == Dict(<<SchemaField("a"), SchemaField("b")>>, TRUE, <<"b">>)

SchNoKey == Dict(<<SchemaField("a"), SchemaField("b")>>, FALSE, <<>>)

RecAB == << << <<"a", 1>>, <<"b", 2>> >>, << <<"a", 3>>, <<"b", 4>> >> >>

RecBA == << << <<"b", 2>>, <<"a", 1>> >>, << <<"b", 4>>, <<"a", 3>> >> >>

RecAC == << << <<"a", 1>>, <<"c", 2>> >> >>

File(named, format, inherit, sch, records, profile) ==
  [named |-> named, format |-> format, inherit |-> inherit, schema |-> sch,
   records |-> records, profile |-> profile]

\* resource files without data
EmptyFiles ==
  {File(TRUE, f, FALSE, Falsy, <<>>, "tabular-data-resource") : f \in Formats \cup {Falsy}}
  \cup
  {File(TRUE, f, TRUE, Falsy, <<>>, "tabular-data-resource") :
     f \in {FmtKeyFirst, FmtRange}}
  \cup {File(TRUE, FmtKeyFirst, FALSE, SchKeyFirst, <<>>, "tabular-data-resource")}

\* resource files with data, their schema persisted or inherited
PopulatedFiles ==
  {File(TRUE, p[1], FALSE, p[2], r, "tabular-data-resource") :
     <<p, r>> \in {<<FmtKeyFirst, SchKeyFirst>>, <<FmtKeyLast, SchKeyLast>>,
                   <<FmtNoKey, SchNoKey>>, <<FmtKeyFirst, Falsy>>}
                  \X {RecAB, RecBA, RecAC}}
  \cup
  {File(TRUE, f, TRUE, Falsy, r, "parameter-tabular-data-resource") :
     <<f, r>> \in {FmtKeyFirst, FmtKeyLast} \X {RecAB, RecAC}}

\* resource files loaded without a format (views), or of another profile
OtherFiles ==
  {File(FALSE, Falsy, FALSE, s, r, "tabular-data-resource") :
     <<s, r>> \in {SchKeyFirst, Falsy} \X {<<>>, RecAB}}
  \cup {File(TRUE, FmtKeyFirst, FALSE, SchKeyFirst, RecAB, "data-resource")}

Files == EmptyFiles \cup PopulatedFiles \cup OtherFiles

\* ----------------------------------------------------------------- state
VARIABLES
  phase,      \* "file": nothing loaded yet; "live": a resource object exists;
              \* "failed": the last construction raised; "written": the
              \* resource was written back to its file
  file,       \* what the resource and format files hold
  format,     \* self._resource["format"]
  schema,     \* self._resource["schema"]
  aliased,    \* schema and format are one and the same dict object
  data,       \* self._data
  op,         \* the last operation
  err,        \* "ok", or the exception the last operation raised
  out,        \* what the last to_dict returned
  truth,      \* what the last __bool__ returned
  arg,        \* the table handed to the last data assignment
  origin,     \* how the object got its present data: "load" (constructor),
              \* "first" (assignment while unpopulated), "again" (assignment
              \* while populated); "failed" after an assignment that raised
  old         \* the object before the last construction or assignment

vars ==
  <<phase, file, format, schema, aliased, data, op, err, out, truth, arg, origin, old>>

Self == [format |-> format, schema |-> schema, aliased |-> aliased, data |-> data]

Snapshot ==
  [format |-> format, schema |-> schema, aliased |-> aliased, data |-> data,
   origin |-> origin]

Nothing == [format |-> Falsy, schema |-> Falsy, aliased |-> FALSE, data |-> EmptyFrame]

NoSnapshot ==
  [format |-> Falsy, schema |-> Falsy, aliased |-> FALSE, data |-> EmptyFrame,
   origin |-> "none"]

NoOut == [format |-> Falsy, schema |-> Falsy, aliased |-> FALSE, records |-> <<>>]

Becomes(r) ==
  /\ format' = r.format
  /\ schema' = r.schema
  /\ aliased' = r.aliased
  /\ data' = r.data

Init ==
  /\ phase = "file"
  /\ file \in Files
  /\ format = Falsy
  /\ schema = Falsy
  /\ aliased = FALSE
  /\ data = EmptyFrame
  /\ op = "none"
  /\ err = "ok"
  /\ out = NoOut
  /\ truth = "none"
  /\ arg = EmptyFrame
  /\ origin = "none"
  /\ old = NoSnapshot

\* a construction: the object exists only when __init__ returned
Constructed(x) ==
  /\ phase' = IF x.err = "ok" THEN "live" ELSE "failed"
  /\ Becomes(IF x.err = "ok" THEN x.res ELSE Nothing)
  /\ err' = x.err
  /\ origin' = "load"
  /\ out' = NoOut
  /\ truth' = "none"
  /\ arg' = EmptyFrame
  /\ old' = Snapshot

\* a construction from the object's own to_dict: the data, and the table it
\* was assigned from, stay those of the object it was made from
Reconstructed(x) ==
  /\ phase' = IF x.err = "ok" THEN "live" ELSE "failed"
  /\ Becomes(IF x.err = "ok" THEN x.res ELSE Nothing)
  /\ err' = x.err
  /\ out' = NoOut
  /\ truth' = "none"
  /\ old' = Snapshot
  /\ UNCHANGED <<arg, origin>>

\* a data assignment
Assigned(x, df) ==
  /\ Becomes(x.res)
  /\ err' = x.err
  /\ origin' = IF x.err # "ok" THEN "failed"
               ELSE IF bool(schema, data) = "True" THEN "again" ELSE "first"
  /\ out' = NoOut
  /\ truth' = "none"
  /\ arg' = df
  /\ old' = Snapshot

\* resource = load_resource(...)
Load ==
  /\ phase = "file"
  /\ \E x \in {load_resource(file)} : Constructed(x)
  /\ op' = "load"
  /\ UNCHANGED file

\* resource.data = df
SetData(df) ==
  /\ phase = "live"
  /\ \E x \in {data_setter(Self, df)} : Assigned(x, df)
  /\ op' = "set"
  /\ UNCHANGED <<phase, file>>

\* d = resource.to_dict()
ToDict ==
  /\ phase = "live"
  /\ op # "to_dict"
  /\ out' = to_dict(Self)
  /\ op' = "to_dict"
  /\ err' = "ok"
  /\ truth' = "none"
  /\ arg' = EmptyFrame
  /\ old' = NoSnapshot
  /\ UNCHANGED <<phase, file, format, schema, aliased, data, origin>>

\* bool(resource)
Bool ==
  /\ phase \in {"live", "probe"}
  /\ op # "bool"
  /\ truth' = bool(schema, data)
  /\ err' = IF bool(schema, data) = "ValueError" THEN "ValueError" ELSE "ok"
  /\ op' = "bool"
  /\ out' = NoOut
  /\ arg' = EmptyFrame
  /\ old' = NoSnapshot
  /\ UNCHANGED <<phase, file, format, schema, aliased, data, origin>>

\* resource.data = pd.DataFrame.from_dict(resource.to_dict()["data"])
SetFromRecords ==
  /\ phase = "live"
  /\ \E df \in {from_dict(to_dict(Self).records)} :
       \E x \in {data_setter(Self, df)} : Assigned(x, df)
  /\ op' = "set_records"
  /\ UNCHANGED <<phase, file>>

\* resource = TabularDataResource(resource.to_dict())
Reload ==
  /\ phase = "live"
  /\ op # "reload"
  /\ \E x \in {init(to_dict(Self))} : Reconstructed(x)
  /\ op' = "reload"
  /\ UNCHANGED file

\* write_resource(run_name, resource): the last step of a session
Write ==
  /\ phase = "live"
  /\ file' = write_resource(Self, file)
  /\ phase' = "written"
  /\ op' = "write"
  /\ err' = "ok"
  /\ out' = NoOut
  /\ truth' = "none"
  /\ arg' = EmptyFrame
  /\ old' = NoSnapshot
  /\ UNCHANGED <<format, schema, aliased, data, origin>>

Next ==
  \/ Load
  \/ \E df \in Tables : SetData(df)
  \/ ToDict
  \/ Bool
  \/ SetFromRecords
  \/ Reload
  \/ Write

Spec == Init /\ [][Next]_vars

\* ------------------------------------------------- populated() on its own
\* frames as the setter and the constructor leave them, and as callers pass
Frames == Tables \cup {set_index(t, <<t.cols[1]>>) : t \in {u \in Tables : u.range}}
          \cup {EmptyFrame}

InitBool ==
  /\ phase = "probe"
  /\ file = File(TRUE, Falsy, FALSE, Falsy, <<>>, "tabular-data-resource")
  /\ format = FmtKeyFirst
  /\ schema \in {Falsy, SchKeyFirst, SchKeyLast, SchNoKey}
  /\ aliased = FALSE
  /\ data \in Frames
  /\ op = "none"
  /\ err = "ok"
  /\ out = NoOut
  /\ truth = "none"
  /\ arg = EmptyFrame
  /\ origin = "none"
  /\ old = NoSnapshot

NextBool == Bool

SpecBool == InitBool /\ [][NextBool]_vars

\* ------------------------------------------- _generate_schema on its own
\* column labels of the tables a schema is generated for
Wide == <<"a", "b", "c", "d", "e", "g", "h", "i">>

\* tables of 0..MaxGenCols columns, counting the key column of a keyed one
GenTables ==
  {DefaultTable(Wide, n, 1) : n \in 0..MaxGenCols}
  \cup {KeyedTable(Wide, n, 1) : n \in 1..MaxGenCols}

\* integer indices: in range, negative, and beyond any table ("10")
IntSpecs == {At(p) : p \in (-MaxPos..MaxPos) \cup {10}}

\* slice indices "a:b", "a:", ":b" and ":"
RangeSpecs ==
  {Slice(a, b) : a \in -2..MaxPos, b \in -2..(MaxPos + 2)}
  \cup {From(a) : a \in -2..MaxPos} \cup {UpTo(b) : b \in -2..(MaxPos + 2)} \cup {All}

\* format fields lists: up to three integer-indexed fields, or up to two
\* fields of which one at least is slice-indexed; the fields are named f, g, h
GenFields ==
  {<<>>}
  \cup {<<FormatField(x, "f")>> : x \in IntSpecs \cup RangeSpecs}
  \cup {<<FormatField(x, "f"), FormatField(y, "g")>> : x, y \in IntSpecs}
  \cup {<<FormatField(x, "f"), FormatField(y, "g"), FormatField(z, "h")>> :
          x, y, z \in {At(p) : p \in -1..2}}
  \cup {<<FormatField(x, "f"), FormatField(y, "g")>> : x \in RangeSpecs, y \in IntSpecs}
  \cup {<<FormatField(x, "f"), FormatField(y, "g")>> :
          x \in IntSpecs \cup {Slice(0, 3), From(1), All}, y \in RangeSpecs}

GenFormats ==
  {Dict(fs, FALSE, <<>>) : fs \in GenFields}
  \cup {Dict(<<FormatField(x, "f")>>, TRUE, <<"f">>) : x \in IntSpecs}

InitGen ==
  /\ phase = "template"
  /\ file = File(TRUE, Falsy, FALSE, Falsy, <<>>, "tabular-data-resource")
  /\ format \in GenFormats
  /\ schema = Falsy
  /\ aliased = FALSE
  /\ data = EmptyFrame
  /\ op = "none"
  /\ err = "ok"
  /\ out = NoOut
  /\ truth = "none"
  /\ arg \in GenTables
  /\ origin = "none"
  /\ old = NoSnapshot

\* self._generate_schema(arg) on an empty resource
Generate ==
  /\ phase = "template"
  /\ \E g \in {generate_schema(format, arg)} :
       /\ err' = g.err
       /\ schema' = IF g.err = "ok" THEN g.schema ELSE schema
  /\ phase' = "generated"
  /\ op' = "generate"
  /\ UNCHANGED <<file, format, aliased, data, out, truth, arg, origin, old>>

NextGen == Generate

SpecGen == InitGen /\ [][NextGen]_vars

\* ------------------------------------------- set_argument (opendatafit)
\* a python value: its type, and what equality and truthiness look at
StrVal(x) == [type |-> "str", kind |-> "str", num |-> 0, str |-> x]

\* numbers are held in tenths, so that 5 == 5.0 and True == 1 as in python
IntVal(n) == [type |-> "int", kind |-> "num", num |-> 10 * n, str |-> ""]

FloatVal(tenths) == [type |-> "float", kind |-> "num", num |-> tenths, str |-> ""]

BoolVal(b) == [type |-> "bool", kind |-> "num", num |-> IF b THEN 10 ELSE 0, str |-> ""]

NoneVal == [type |-> "NoneType", kind |-> "none", num |-> 0, str |-> ""]

\* a == b
PyEq(a, b) == a.kind = b.kind /\ a.num = b.num /\ a.str = b.str

\* bool(value)
Truthy(v) == (v.kind = "num" /\ v.num # 0) \/ (v.kind = "str" /\ v.str # "")

\* TYPE_MAP.get(expected_type, False): the python type object, by name
TYPE_MAP(t) ==
  CASE t = "string" -> "str"
    [] t = "boolean" -> "bool"
    [] t = "number" -> "float | int"
    [] OTHER -> "False"

\* set_argument(argument_name, value, ...): the exception raised or "ok", the
\* value the argument space holds afterwards and whether the space was written
set_argument(value, interface, space) ==
  LET fail(e) == [err |-> e, space |-> space, written |-> FALSE]
  IN IF interface.profile \in {"tabular-data-resource", "parameter-tabular-data-resource"}
     THEN fail("InvalidProfileError")
     ELSE IF ~interface.hasType THEN fail("KeyError")
     ELSE IF TYPE_MAP(interface.type) # value.type THEN fail("InvalidTypeError")
     ELSE IF Len(interface.enum) > 0
             /\ ~\E i \in DOMAIN interface.enum : PyEq(interface.enum[i], value)
     THEN fail("InvalidEnumValueError")
     ELSE IF interface.null = "absent" THEN fail("KeyError")
     ELSE IF interface.null = "false" /\ ~Truthy(value) THEN fail("InvalidValueError")
     ELSE [err |-> "ok", space |-> value, written |-> TRUE]

\* the values callers pass
Values ==
  {StrVal("red"), StrVal("green"), StrVal(""), IntVal(5), IntVal(0), FloatVal(15),
   FloatVal(0), BoolVal(TRUE), BoolVal(FALSE), NoneVal}

\* the interface definitions of an algorithm's arguments
Interfaces ==
  [profile : {"none", "tabular-data-resource", "parameter-tabular-data-resource"},
   hasType : {TRUE},
   type : {"string", "boolean", "number", "integer"},
   enum : {<<>>, <<StrVal("red"), StrVal("blue")>>, <<IntVal(5), IntVal(7)>>},
   null : {"true", "false", "absent"}]
  \cup
  [profile : {"none"}, hasType : {FALSE}, type : {"string"}, enum : {<<>>},
   null : {"true", "false"}]

InitArg ==
  /\ phase = "argument"
  /\ file \in [interface : Interfaces, space : {StrVal("blue")}, written : {FALSE}]
  /\ format = Falsy
  /\ schema = Falsy
  /\ aliased = FALSE
  /\ data = EmptyFrame
  /\ op = "none"
  /\ err = "ok"
  /\ out = NoOut
  /\ truth = "none"
  /\ arg \in Values
  /\ origin = "none"
  /\ old = NoSnapshot

\* set_argument(name, arg, ...): file is the interface and the argument
\* space on disk, arg the value passed
SetArgument ==
  /\ phase = "argument"
  /\ \E x \in {set_argument(arg, file.interface, file.space)} :
       /\ err' = x.err
       /\ file' = [file EXCEPT !.space = x.space, !.written = x.written]
  /\ phase' = "done"
  /\ op' = "set_argument"
  /\ UNCHANGED <<format, schema, aliased, data, out, truth, arg, origin, old>>

NextArg == SetArgument

SpecArg == InitArg /\ [][NextArg]_vars

\* ------------------------------------------------------------------ claims
Populated(r) == bool(r.schema, r.data) = "True"

HasRows(df) == Len(df.rows) > 0

\* a table with its key columns demoted to leading plain columns
Demoted(df) == IF has_user_defined_index(df) THEN reset_index(df) ELSE df

AllSet(d) == \A i \in DOMAIN d.fields : d.fields[i].set

Assignments == {"set", "set_records"}

\* an empty Resource holding template T
Fresh(T) == [format |-> T, schema |-> Falsy, aliased |-> FALSE, data |-> EmptyFrame]

\* C1: for every populated Resource, serializing it, deserializing the
\* records and assigning the table back leaves the schema's field names and
\* order, the table's columns and every row value (under the same field name)
\* what they were.
C1_RoundTrip ==
  (op = "set_records" /\ Populated(old)) =>
    /\ Names(schema) = Names(old.schema)
    /\ data = old.data

\* C2: a Resource made by assigning rows to an empty Resource with template T,
\* serialized and constructed anew from the serialized record, has the schema,
\* the columns and the row values of a second Resource made by assigning the
\* same rows to a fresh empty Resource with template T.
C2_ReloadEqualsSecond ==
  (op = "reload" /\ origin = "first" /\ HasRows(arg)) =>
    LET second == data_setter(Fresh(old.format), arg)
    IN /\ err = "ok"
       /\ second.err = "ok"
       /\ schema = second.res.schema
       /\ data = second.res.data

C2_Witness ==
  /\ op = "reload" /\ origin = "first" /\ HasRows(arg) /\ err = "ok"
  /\ schema.pk = <<"b">>
  /\ data.idx = <<"b">> /\ data.cols = <<"a">> /\ Len(data.rows) = MaxRows
  /\ Titles(schema) = <<"a", "y">>

\* C3 as stated: once a successful assignment has taken place, every later
\* successful assignment (zero-row tables included) leaves the schema's field
\* count, names, order and primary key unchanged.
C3_GeneratedOnce ==
  (op \in Assignments /\ err = "ok" /\ old.origin \in {"first", "again"}) =>
    /\ Names(schema) = Names(old.schema)
    /\ schema.hasPk = old.schema.hasPk
    /\ schema.pk = old.schema.pk

\* C3 as amended: an assignment to a populated Resource never generates a
\* schema: whether it succeeds or raises, the schema afterwards is the schema
\* before with at most the titles of its fields changed.
C3_PopulatedKeepsFields ==
  (op \in Assignments /\ Populated(old)) =>
    /\ Len(schema.fields) = Len(old.schema.fields)
    /\ schema = [old.schema EXCEPT
                   !.fields = [i \in DOMAIN old.schema.fields |->
                                 [old.schema.fields[i] EXCEPT
                                    !.title = schema.fields[i].title]]]

C3_Witness ==
  /\ op = "set" /\ err = "ok" /\ Populated(old)
  /\ Titles(schema) # Titles(old.schema)
  /\ Len(arg.rows) = 0

\* C4: whenever the Resource has a schema, the table's columns, with
\* the key columns demoted, are exactly the schema's field names in schema
\* field order.
C4_Alignment ==
  (phase = "live" /\ schema.set) => Demoted(data).cols = Names(schema)

\* C5 as stated: assigning to a populated Resource a table whose column set
\* is not the set of the schema's field names fails.
C5_MismatchRaises ==
  (op = "set" /\ Populated(old)
     /\ Range(Demoted(arg).cols) # Range(Names(old.schema))) =>
    err # "ok"

\* C5 as amended: assigning to a populated Resource a table whose column
\* count is not the schema's field count fails, leaving the table and the
\* field names as they were; a table of the same column count that is accepted
\* has its labels stored as the titles of the fields, whose names stay.
C5_CountMismatchRaises ==
  (op = "set" /\ Populated(old)) =>
    IF Len(Demoted(arg).cols) # Len(old.schema.fields)
    THEN /\ err \in {"IndexError", "ValueError"}
         /\ data = old.data
         /\ Names(schema) = Names(old.schema)
    ELSE err = "ok" =>
           /\ Titles(schema) = Demoted(arg).cols
           /\ Names(schema) = Names(old.schema)

C5_Witness ==
  /\ op = "set" /\ Populated(old)
  /\ Len(Demoted(arg).cols) < Len(old.schema.fields)
  /\ err = "ValueError"
  /\ Titles(schema) # Titles(old.schema)

C7_FailFast ==
  (phase = "live" /\ origin = "load" /\ op = "bool"
     /\ (file.schema.set \/ file.inherit) # (Len(file.records) > 0)) =>
    truth = "ValueError"

\* C8: a freshly constructed Resource with zero rows is not
\* populated and has no schema; after one successful assignment of a non-empty
\* table it is populated and has a schema.
C8_Lifecycle ==
  /\ (op = "load" /\ phase = "live" /\ Len(data.rows) = 0) =>
       (bool(schema, data) = "False" /\ ~schema.set)
  /\ (op = "set" /\ err = "ok" /\ old.origin = "load" /\ Len(old.data.rows) = 0
        /\ HasRows(arg)) =>
       (bool(schema, data) = "True" /\ schema.set)

\* C9: an assignment under a schema that declares a primary key promotes
\* exactly those columns to the row key, the others keeping schema order; under
\* a schema that declares none it succeeds all the same and installs the table
\* with every column a value column.
C9_KeyPromotion ==
  op = "set" =>
    /\ (err = "ok" /\ schema.hasPk) =>
         /\ data.idx = schema.pk
         /\ data.cols = Without(Names(schema), Range(schema.pk))
    /\ (schema.set /\ ~schema.hasPk /\ AllSet(schema)
          /\ Len(Demoted(arg).cols) = Len(schema.fields)) =>
         /\ err = "ok"
         /\ data.range
         /\ data.cols = Names(schema)

\* C10: to_dict emits one record per row whose keys are exactly the schema's
\* field names, the key columns leading; a table without a promoted key gets
\* no extra row-number entry.
C10_Records ==
  (op = "to_dict" /\ Populated(Self)) =>
    /\ Len(out.records) = Len(data.rows)
    /\ \A i \in DOMAIN out.records :
         /\ Range(Keys(out.records[i])) = Range(Names(schema))
         /\ data.range => Keys(out.records[i]) = data.cols
         /\ ~data.range =>
              SubSeq(Keys(out.records[i]), 1, Len(data.idx)) = data.idx

\* ---- claims about _generate_schema, under SpecGen
\* the column count the schema is generated for
GenC == Len(Demoted(arg).cols)

\* a start or stop counted from the end when negative
Resolved(v, C) == IF v < 0 THEN v + C ELSE v

\* the positions of 0..C-1 that an index selects
Selection(ix, C) ==
  IF ix.slice
  THEN {p \in 0..(C - 1) : /\ ix.hasStart => Resolved(ix.start, C) <= p
                           /\ ix.hasStop => p < Resolved(ix.stop, C)}
  ELSE {Resolved(ix.start, C)} \cap (0..(C - 1))

\* the last format field that selects position p (0: none does)
LastEntry(fmt, p, C) ==
  LET hits == {k \in DOMAIN fmt.fields : p \in Selection(fmt.fields[k].index, C)}
  IN IF hits = {} THEN 0 ELSE CHOOSE k \in hits : \A j \in hits : j <= k

\* a format field without its "index" key
Stripped(ff) == [ff EXCEPT !.hasIndex = FALSE, !.index = At(0)]

\* the k-th clone of a format field
Clone(ff, k) == [Stripped(ff) EXCEPT !.name = ff.name \o ToString(k)]

\* offset of position p within a selection
OffsetIn(sel, p) == Cardinality({q \in sel : q < p})

AllInt(fmt) == \A k \in DOMAIN fmt.fields : ~fmt.fields[k].index.slice

\* an integer index outside [-C, C)
OutOfRange(ix, C) == ~ix.slice /\ (ix.start >= C \/ ix.start < -C)

\* C11: a format whose fields all carry integer indices that together cover
\* 0..C-1 yields, for a C-column table, a schema of C fields whose field at
\* each position is a format field addressed to it, its name unchanged and its
\* "index" key removed.
C11_IntegerPositions ==
  (/\ op = "generate" /\ Len(format.fields) > 0 /\ AllInt(format)
   /\ \A k \in DOMAIN format.fields : ~OutOfRange(format.fields[k].index, GenC)
   /\ UNION {Selection(format.fields[k].index, GenC) : k \in DOMAIN format.fields}
        = 0..(GenC - 1)) =>
    /\ err = "ok"
    /\ Len(schema.fields) = GenC
    /\ \A p \in 0..(GenC - 1) :
         \E k \in DOMAIN format.fields :
           /\ Selection(format.fields[k].index, GenC) = {p}
           /\ schema.fields[p + 1] = Stripped(format.fields[k])

C11_Witness ==
  /\ op = "generate" /\ err = "ok"
  /\ format.fields = <<FormatField(At(1), "f"), FormatField(At(-1), "g"),
                       FormatField(At(0), "h")>>
  /\ Names(schema) = <<"h", "f", "g">>
  /\ \A i \in DOMAIN schema.fields : ~schema.fields[i].hasIndex

\* C12: a slice-indexed format field is resolved against the column count C
\* by the slice rules, the k-th position it selects gets a clone named base
\* name + k (unless a later field selects the position too), positions no
\* field selects stay unset, and the schema has exactly C slots.
C12_RangeExpansion ==
  (op = "generate" /\ err = "ok") =>
    /\ Len(schema.fields) = GenC
    /\ \A p \in 0..(GenC - 1) :
         LET k == LastEntry(format, p, GenC)
         IN /\ k = 0 => ~schema.fields[p + 1].set
            /\ (k # 0 /\ format.fields[k].index.slice) =>
                 schema.fields[p + 1] =
                   Clone(format.fields[k],
                         OffsetIn(Selection(format.fields[k].index, GenC), p))

C12_Witness ==
  /\ op = "generate" /\ err = "ok"
  /\ format.fields = <<FormatField(Slice(2, 5), "f")>>
  /\ GenC = 6
  /\ Names(schema) = <<"", "", "f0", "f1", "f2", "">>
  /\ schema.fields[3].set /\ ~schema.fields[6].set

\* C13: format fields are applied in format order, and a position two fields
\* select carries the field of the later one.
C13_LastWriteWins ==
  (op = "generate" /\ err = "ok") =>
    \A p \in 0..(GenC - 1) :
      LET k == LastEntry(format, p, GenC)
      IN k # 0 =>
           \/ schema.fields[p + 1] = Stripped(format.fields[k])
           \/ \E j \in 0..GenC : schema.fields[p + 1] = Clone(format.fields[k], j)

C13_Witness ==
  /\ op = "generate" /\ err = "ok"
  /\ format.fields = <<FormatField(Slice(0, 3), "f"), FormatField(Slice(1, 2), "g")>>
  /\ GenC = 3
  /\ Names(schema) = <<"f0", "g0", "f2">>

\* C14: when a slot is still unset after every format field was processed,
\* schema generation fails and no schema with an unset slot is installed.
C14_IncompleteRejected ==
  (/\ op = "generate" /\ Len(format.fields) > 0
   /\ \E p \in 0..(GenC - 1) : LastEntry(format, p, GenC) = 0) =>
    /\ err # "ok"
    /\ ~schema.set

\* C15: an integer index outside [-C, C) makes schema generation raise an
\* IndexError that reports that index, and nothing else does; an integer index
\* in [-C, -1] addresses the position counted from the end and is no error.
C15_OutOfRange ==
  (op = "generate" /\ format.hasFields) =>
    LET bad == {k \in DOMAIN format.fields : OutOfRange(format.fields[k].index, GenC)}
    IN /\ err = "IndexError" <=> bad # {}
       /\ bad # {} =>
            /\ ~schema.set
            /\ generate_schema(format, arg).pos
                 = format.fields[CHOOSE k \in bad : \A j \in bad : k <= j].index.start
       /\ bad = {} =>
            \A k \in DOMAIN format.fields :
              LET ix == format.fields[k].index
              IN (/\ ~ix.slice /\ ix.start < 0
                  /\ LastEntry(format, ix.start + GenC, GenC) = k) =>
                   schema.fields[ix.start + GenC + 1] = Stripped(format.fields[k])

C15_Witness ==
  /\ op = "generate" /\ err = "IndexError"
  /\ format.fields = <<FormatField(At(10), "f")>>
  /\ GenC = 3
  /\ generate_schema(format, arg).pos = 10
  /\ ~schema.set

\* C16: schema generation from a format that has no fields fails, whatever
\* the table, and installs no schema.
C16_EmptyTemplate ==
  (op = "generate" /\ Len(format.fields) = 0) =>
    /\ err # "ok"
    /\ ~schema.set

\* C17: when a data assignment to an empty Resource raises, the schema and
\* the table are what they were before the assignment.
C17_AllOrNothing ==
  (op \in Assignments /\ err # "ok" /\ ~Populated(old)) =>
    /\ schema = old.schema
    /\ data = old.data

\* C18: loading a resource whose persisted schema is the sentinel gives it a
\* schema equal to the format and tagged as a copy of it; writing a resource
\* whose schema has the tag persists the sentinel, so that load and then write,
\* with no data assigned in between, leaves the sentinel in the file.
C18_SentinelRoundTrip ==
  [][/\ (Load /\ file.named /\ file.inherit /\ phase' = "live") =>
          /\ schema' = [file.format EXCEPT !.type = "format"]
          /\ schema'.set
     /\ Write =>
          /\ file'.inherit <=> schema.type = "format"
          /\ file'.inherit => ~file'.schema.set
          /\ ~file'.inherit => file'.schema = schema
          /\ (file.named /\ file.inherit /\ origin = "load") => file'.inherit
          /\ file'.format = file.format]_vars

C18_Witness ==
  /\ op = "write" /\ origin = "load"
  /\ file.named /\ file.inherit /\ ~file.schema.set
  /\ schema.type = "format" /\ Names(schema) = <<"a", "b">>
  /\ HasRows(data)

\* C19: no operation changes the format the Resource holds: its fields and
\* its primary key stay those of the format file it was loaded from.
C19_TemplateImmutable ==
  phase \in {"live", "written"} =>
    /\ format.fields = file.format.fields
    /\ format.hasPk = file.format.hasPk
    /\ format.pk = file.format.pk

\* ---- claims about set_argument, under SpecArg
\* the value's runtime type is the declared interface type
Matches(v, t) ==
  \/ t = "string" /\ v.type = "str"
  \/ t = "boolean" /\ v.type = "bool"
  \/ t = "number" /\ v.type \in {"int", "float"}

\* C20: for an argument that is not a resource, set_argument raises
\* InvalidTypeError exactly when the runtime type of the value is not the
\* declared type (string, boolean, number); an integer or a float passes the
\* type check for the type number.
C20_TypeCheck ==
  (/\ op = "set_argument"
   /\ file.interface.profile = "none" /\ file.interface.hasType
   /\ file.interface.type \in {"string", "boolean", "number"}) =>
    (err = "InvalidTypeError" <=> ~Matches(arg, file.interface.type))

\* C21: when the interface disallows null and the value is null or empty,
\* set_argument raises InvalidValueError, in particular for the value None
\* under {type: string, null: false}; whenever set_argument raises, the
\* argument space is neither modified nor written.
C21_NullCheck ==
  (op = "set_argument" /\ file.interface.profile = "none" /\ file.interface.hasType) =>
    /\ (/\ file.interface.null = "false" /\ file.interface.type = "string"
        /\ Len(file.interface.enum) = 0
        /\ arg \in {NoneVal, StrVal("")}) => err = "InvalidValueError"
    /\ err # "ok" => (file.space = StrVal("blue") /\ ~file.written)

\* the format fields that select exactly one position, which no later field
\* selects
SingleSelections ==
  {k \in DOMAIN format.fields :
     /\ Cardinality(Selection(format.fields[k].index, GenC)) = 1
     /\ \A p \in Selection(format.fields[k].index, GenC) : LastEntry(format, p, GenC) = k}

\* the one position a format field of SingleSelections selects
OnlyPosition(k) == CHOOSE p \in Selection(format.fields[k].index, GenC) : TRUE

\* C22 as stated: a format field whose index resolves to exactly one position,
\* be it an integer or a range, is the schema field at that position with its
\* "index" key removed and its name unchanged, without a numeric suffix.
C22_SingleDirect ==
  (op = "generate" /\ err = "ok") =>
    \A k \in SingleSelections :
      schema.fields[OnlyPosition(k) + 1] = Stripped(format.fields[k])

\* C22 as amended: the notation of the index decides, not the number of
\* positions it resolves to. An integer-indexed field is assigned directly,
\* its name unchanged; a slice-indexed field that selects one position is
\* assigned as a clone whose name is the base name followed by 0.
C22_SuffixByNotation ==
  (op = "generate" /\ err = "ok") =>
    \A k \in SingleSelections :
      schema.fields[OnlyPosition(k) + 1] =
        IF format.fields[k].index.slice
        THEN [Stripped(format.fields[k]) EXCEPT !.name = format.fields[k].name \o "0"]
        ELSE Stripped(format.fields[k])

C22_Witness ==
  /\ op = "generate" /\ err = "ok"
  /\ format.fields = <<FormatField(At(0), "f"), FormatField(Slice(1, 2), "g")>>
  /\ GenC = 3
  /\ Names(schema) = <<"f", "g0", "">>

\* C23: after a successful construction and any sequence of data assignments,
\* successful or not, the Resource never has a non-empty table together with an
\* unset schema, and __bool__ never raises.
C23_NeverInconsistent ==
  phase \in {"live", "written"} =>
    /\ ~(~IsEmpty(data) /\ ~schema.set)
    /\ bool(schema, data) # "ValueError"
    /\ op = "bool" => (truth # "ValueError" /\ err = "ok")

C23_Witness ==
  /\ phase = "live" /\ op = "bool" /\ origin = "failed"
  /\ truth = "True" /\ schema.set /\ HasRows(data)

====
